---- MODULE Spec2Model ----
(***************************************************************************)
(* A model of the prelude library: Option (src/src/option.ts), Result      *)
(* (src/src/result.ts), TaggedError (src/src/error.ts) and Fn.tap          *)
(* (src/src/function.ts), over a small universe of JavaScript values.      *)
(***************************************************************************)
EXTENDS Integers, Sequences, FiniteSets

\* Numbers of the value universe are 0..MaxNum (0 is the falsy number).
MaxNum == 1

(***************************************************************************)
(* JavaScript values.  Every value is a record with its typeof in t; an    *)
(* object carries its prototype chain (most derived class first) and its   *)
(* own fields.                                                             *)
(***************************************************************************)
Null == [t |-> "null"]
Undefined == [t |-> "undefined"]
Num(n) == [t |-> "number", n |-> n]
Str(s) == [t |-> "string", s |-> s]
Bool(b) == [t |-> "boolean", b |-> b]
Sym == [t |-> "symbol"]

\* {} : a plain object.
PlainObject == [t |-> "object", chain |-> <<"Object">>]
\* { _tag: "X", message: "m" } : an object that only looks like a tagged error.
ForgedTagged == [t |-> "object", chain |-> <<"Object">>, _tag |-> "X", message |-> "m"]
\* new Error(message)
NewError(message) ==
    [t |-> "object", chain |-> <<"Error", "Object">>, message |-> message]
\* Object.assign(new Error(message), { _tag: "X" })
NewErrorWithTag(message) ==
    [t |-> "object", chain |-> <<"Error", "Object">>, message |-> message, _tag |-> "X"]
\* The TypeError the engine raises when a Symbol is converted to a string.
SymbolTypeError ==
    [t |-> "object", chain |-> <<"TypeError", "Error", "Object">>,
     message |-> "Cannot convert a Symbol value to a string"]
\* A promise object.  "fn" is the promise a caller-supplied function returned
\* (its state is the variable fnPromise), "outer" the one asyncTry returned
\* (the variable outer).
Promise(id) == [t |-> "object", chain |-> <<"Promise", "Object">>, id |-> id]

\* How a call ends: it returns a value or it throws one.
Return(v) == [kind |-> "return", value |-> v]
Throw(x) == [kind |-> "throw", value |-> x]

\* value === null || value === undefined
IsNullish(v) == v.t \in {"null", "undefined"}

\* ToBoolean: what `if (value)` tests.
ToBoolean(v) ==
    CASE v.t = "null" -> FALSE
      [] v.t = "undefined" -> FALSE
      [] v.t = "number" -> v.n # 0
      [] v.t = "string" -> v.s # ""
      [] v.t = "boolean" -> v.b
      [] OTHER -> TRUE

\* value instanceof C : C is on the prototype chain of an object.
InstanceOf(v, C) ==
    /\ v.t = "object"
    /\ \E i \in 1..Len(v.chain) : v.chain[i] = C

Digit == <<"0", "1", "2", "3", "4", "5", "6", "7", "8", "9">>

RECURSIVE NumberToString(_)
NumberToString(n) ==
    IF n < 10 THEN Digit[n + 1]
    ELSE NumberToString(n \div 10) \o Digit[(n % 10) + 1]

\* ToString as a template literal `${value}` applies it: a Symbol cannot be
\* converted and raises a TypeError; an Error prints as "Error: message".
ToString(v) ==
    CASE v.t = "null" -> Return(Str("null"))
      [] v.t = "undefined" -> Return(Str("undefined"))
      [] v.t = "number" -> Return(Str(NumberToString(v.n)))
      [] v.t = "string" -> Return(v)
      [] v.t = "boolean" -> Return(Str(IF v.b THEN "true" ELSE "false"))
      [] v.t = "symbol" -> Throw(SymbolTypeError)
      [] InstanceOf(v, "Error") ->
            Return(Str(IF v.message = "" THEN "Error" ELSE "Error: " \o v.message))
      [] InstanceOf(v, "Promise") -> Return(Str("[object Promise]"))
      [] OTHER -> Return(Str("[object Object]"))

(***************************************************************************)
(* error.ts                                                                *)
(***************************************************************************)
isTaggedError_DuckTyped(error) ==
    error.t = "object" /\ "_tag" \in DOMAIN error

isTaggedError(error) ==
    IF InstanceOf(error, "TaggedError") THEN TRUE ELSE FALSE

(***************************************************************************)
(* result.ts: the error classes                                            *)
(***************************************************************************)
\* new UnwrapError(message)
UnwrapError(message) ==
    [t |-> "object", chain |-> <<"UnwrapError", "TaggedError", "Error", "Object">>,
     _tag |-> "UnwrapError", message |-> message]

\* new TryCatchError({ cause })
TryCatchError(options) ==
    [t |-> "object", chain |-> <<"TryCatchError", "TaggedError", "Error", "Object">>,
     _tag |-> "TryCatchError", message |-> "TryCatchError", cause |-> options.cause]


(***************************************************************************)
(* Caller-supplied functions.  A callback is a descriptor of what it does  *)
(* when it is called; Call gives how the call ends.  A method reports its  *)
(* own outcome together with the calls it made: [out, calls].              *)
(***************************************************************************)
\* new Some(value), new None(), new Ok(value), new Err(value)
Some(value) ==
    [t |-> "object", chain |-> <<"Some", "Object">>, _tag |-> "some", value |-> value]
None == [t |-> "object", chain |-> <<"None", "Object">>, _tag |-> "none"]
Ok(value) ==
    [t |-> "object", chain |-> <<"Ok", "Object">>, _tag |-> "ok", value |-> value]
Err(value) ==
    [t |-> "object", chain |-> <<"Err", "Object">>, _tag |-> "err", value |-> value]

\* Option.some / Option.none
Option_some(value) == Some(value)
Option_none == None

\* A fromNullable that tests only for null and undefined (what its JSDoc says).
Option_fromNullable_Nullish(value) ==
    IF ~IsNullish(value) THEN Option_some(value) ELSE Option_none

\* A fromNullable that tests only for undefined.
Option_fromNullable_UndefinedOnly(value) ==
    IF value # Undefined THEN Option_some(value) ELSE Option_none

\* Option.fromNullable: if (value) return Option.some(value); return Option.none()
Option_fromNullable(value) ==
    IF ToBoolean(value) THEN Option_some(value) ELSE Option_none

\* Result.ok / Result.err
Result_ok(value) == Ok(value)
Result_err(value) == Err(value)

\* typeof value
TypeOf(v) == Str(IF v.t = "null" THEN "object" ELSE v.t)

\* fn(...args) for a caller-supplied fn.  The functions that compute from
\* their argument are (x) => x, (x) => !x, (x) => typeof x and, of two
\* functions f and g, (x) => g(f(x)).
RECURSIVE Call(_, _)
Call(fn, args) ==
    CASE fn.do = "return" -> Return(fn.value)
      [] fn.do = "throw" -> Throw(fn.value)
      [] fn.do = "arg" -> Return(IF Len(args) > 0 THEN args[1] ELSE Undefined)
      [] fn.do = "some" -> Return(Option_some(fn.value))
      [] fn.do = "none" -> Return(Option_none)
      [] fn.do = "fromNullable" -> Return(Option_fromNullable(fn.value))
      [] fn.do = "ok" -> Return(Result_ok(fn.value))
      [] fn.do = "err" -> Return(Result_err(fn.value))
      [] fn.do = "promise" -> Return(Promise("fn"))
      [] fn.do = "not" ->
            Return(Bool(~ToBoolean(IF Len(args) > 0 THEN args[1] ELSE Undefined)))
      [] fn.do = "typeof" ->
            Return(TypeOf(IF Len(args) > 0 THEN args[1] ELSE Undefined))
      [] fn.do = "compose" ->
            LET inner == Call(fn.f, args)
            IN  IF inner.kind = "throw" THEN inner
                ELSE Call(fn.g, <<inner.value>>)

\* A method that calls nothing and ends with `out`.
NoCalls(out) == [out |-> out, calls |-> <<>>]
\* A method's call of `fn` (known to it as `name`) with `args`: how the call
\* ends, and the record of the call.  A throw of fn ends the method too.
Invoke(name, fn, args) ==
    [out |-> Call(fn, args), calls |-> <<[fn |-> name, args |-> args]>>]

(***************************************************************************)
(* option.ts: class Some                                                   *)
(***************************************************************************)
\* A map that builds its result with Option.fromNullable.
Some_map_FromNullable(self, fn) ==
    LET r == Invoke("fn", fn, <<self.value>>)
    IN  IF r.out.kind = "throw" THEN r
        ELSE [r EXCEPT !.out = Return(Option_fromNullable(r.out.value))]

Some_map(self, fn) ==
    LET r == Invoke("fn", fn, <<self.value>>)
    IN  IF r.out.kind = "throw" THEN r
        ELSE [r EXCEPT !.out = Return(Option_some(r.out.value))]

Some_andThen(self, fn) ==
    Invoke("fn", fn, <<self.value>>)

Some_match(self, matcher) ==
    Invoke("some", matcher.some, <<self.value>>)

Some_unwrap(self, message) == NoCalls(Return(self.value))

Some_unwrapOr(self, or) == NoCalls(Return(self.value))

(***************************************************************************)
(* option.ts: class None                                                   *)
(***************************************************************************)
None_map(self, fn) == NoCalls(Return(self))

None_andThen(self, fn) == NoCalls(Return(self))

None_match(self, matcher) ==
    Invoke("none", matcher.none, <<>>)

\* throw new UnwrapError(message ?? "Option is none")
None_unwrap(self, message) ==
    NoCalls(Throw(UnwrapError(IF IsNullish(message) THEN "Option is none"
                            ELSE message.s)))

None_unwrapOr(self, or) == NoCalls(Return(or))

(***************************************************************************)
(* result.ts: class Ok                                                     *)
(***************************************************************************)
Ok_map_Swallow(self, fn) ==
    LET r == Call(fn, <<self.value>>)
    IN  [out |-> IF r.kind = "throw" THEN Return(self)
                 ELSE Return(Result_ok(r.value)),
         calls |-> <<[fn |-> "fn", args |-> <<self.value>>]>>]

Ok_map(self, fn) ==
    LET r == Invoke("fn", fn, <<self.value>>)
    IN  IF r.out.kind = "throw" THEN r
        ELSE [r EXCEPT !.out = Return(Result_ok(r.out.value))]

Ok_mapError(self, fn) == NoCalls(Return(self))

Ok_andThen(self, fn) ==
    Invoke("fn", fn, <<self.value>>)

Ok_match(self, matcher) ==
    Invoke("ok", matcher.ok, <<self.value>>)

Ok_unwrap(self, message) == NoCalls(Return(self.value))

\* An unwrapOr that falls back on the default for a null or undefined value.
Ok_unwrapOr_Coalesce(self, or) ==
    NoCalls(Return(IF IsNullish(self.value) THEN or ELSE self.value))

Ok_unwrapOr(self, or) == NoCalls(Return(self.value))

\* throw new UnwrapError(`Result is ok: ${this.value}`)
Ok_unwrapError(self) ==
    LET s == ToString(self.value)
    IN  NoCalls(IF s.kind = "throw" THEN s
              ELSE Throw(UnwrapError("Result is ok: " \o s.value.s)))

(***************************************************************************)
(* result.ts: class Err                                                    *)
(***************************************************************************)
Err_map(self, fn) == NoCalls(Return(self))

Err_mapError(self, fn) ==
    LET r == Invoke("fn", fn, <<self.value>>)
    IN  IF r.out.kind = "throw" THEN r
        ELSE [r EXCEPT !.out = Return(Result_err(r.out.value))]

\* An andThen that calls fn on the error.
Err_andThen_Call(self, fn) == Invoke("fn", fn, <<self.value>>)

Err_andThen(self, fn) == NoCalls(Return(self))

Err_match(self, matcher) ==
    Invoke("err", matcher.err, <<self.value>>)

\* throw new UnwrapError(message ?? `Result is error: ${this.value}`)
Err_unwrap(self, message) ==
    IF IsNullish(message)
    THEN LET s == ToString(self.value)
         IN  NoCalls(IF s.kind = "throw" THEN s
                   ELSE Throw(UnwrapError("Result is error: " \o s.value.s)))
    ELSE NoCalls(Throw(UnwrapError(message.s)))

Err_unwrapOr(self, or) == NoCalls(Return(or))

Err_unwrapError(self) == NoCalls(Return(self.value))

(***************************************************************************)
(* result.ts: Result.try                                                   *)
(***************************************************************************)
\* A try that lets the exception escape.
Result_try_NoCatch(fn) ==
    LET r == Call(fn, <<>>)
    IN  [out |-> IF r.kind = "return" THEN Return(Result_ok(r.value)) ELSE r,
         calls |-> <<[fn |-> "fn", args |-> <<>>]>>,
         attached |-> FALSE]

\* A try that puts a rejection handler on a promise fn returned.
Result_try_Catches(fn) ==
    LET r == Call(fn, <<>>)
    IN  [out |-> IF r.kind = "return" THEN Return(Result_ok(r.value))
                 ELSE Return(Result_err(TryCatchError([cause |-> r.value]))),
         calls |-> <<[fn |-> "fn", args |-> <<>>]>>,
         attached |-> r.kind = "return" /\ InstanceOf(r.value, "Promise")]

\* Result.try: the Result, the call of fn, and whether a handler was put on
\* what fn returned (never: the value goes into Result.ok as it is).
Result_try(fn) ==
    LET r == Call(fn, <<>>)
    IN  [out |-> IF r.kind = "return" THEN Return(Result_ok(r.value))
                 ELSE Return(Result_err(TryCatchError([cause |-> r.value]))),
         calls |-> <<[fn |-> "fn", args |-> <<>>]>>,
         attached |-> FALSE]

(***************************************************************************)
(* Method dispatch on the receiver's class.                                *)
(***************************************************************************)
map(self, fn) ==
    CASE self._tag = "some" -> Some_map(self, fn)
      [] self._tag = "none" -> None_map(self, fn)
      [] self._tag = "ok" -> Ok_map(self, fn)
      [] self._tag = "err" -> Err_map(self, fn)

andThen(self, fn) ==
    CASE self._tag = "some" -> Some_andThen(self, fn)
      [] self._tag = "none" -> None_andThen(self, fn)
      [] self._tag = "ok" -> Ok_andThen(self, fn)
      [] self._tag = "err" -> Err_andThen(self, fn)

mapError(self, fn) ==
    CASE self._tag = "ok" -> Ok_mapError(self, fn)
      [] self._tag = "err" -> Err_mapError(self, fn)

match(self, matcher) ==
    CASE self._tag = "some" -> Some_match(self, matcher)
      [] self._tag = "none" -> None_match(self, matcher)
      [] self._tag = "ok" -> Ok_match(self, matcher)
      [] self._tag = "err" -> Err_match(self, matcher)

unwrap(self, message) ==
    CASE self._tag = "some" -> Some_unwrap(self, message)
      [] self._tag = "none" -> None_unwrap(self, message)
      [] self._tag = "ok" -> Ok_unwrap(self, message)
      [] self._tag = "err" -> Err_unwrap(self, message)

unwrapOr(self, or) ==
    CASE self._tag = "some" -> Some_unwrapOr(self, or)
      [] self._tag = "none" -> None_unwrapOr(self, or)
      [] self._tag = "ok" -> Ok_unwrapOr(self, or)
      [] self._tag = "err" -> Err_unwrapOr(self, or)

unwrapError(self) ==
    CASE self._tag = "ok" -> Ok_unwrapError(self)
      [] self._tag = "err" -> Err_unwrapError(self)

IsOption(v) == InstanceOf(v, "Some") \/ InstanceOf(v, "None")
IsResult(v) == InstanceOf(v, "Ok") \/ InstanceOf(v, "Err")

(***************************************************************************)
(* result.ts: Result.asyncTry, an async function.  It runs synchronously   *)
(* up to `await fn()` (asyncTry_start), is resumed with the outcome of the *)
(* await (asyncTry_resume), and its completion settles the promise it      *)
(* returned (AsyncFunctionSettle).                                         *)
(***************************************************************************)
\* catch (error) { return Result.err(new TryCatchError({ cause: error })); }
asyncTry_catch(error) == Return(Result_err(TryCatchError([cause |-> error])))

\* An asyncTry that returns Result.ok(fn()) without awaiting.
asyncTry_start_NoAwait(fn) ==
    LET r == Call(fn, <<>>)
    IN  IF r.kind = "throw"
        THEN [pc |-> "done", completion |-> asyncTry_catch(r.value)]
        ELSE [pc |-> "done", completion |-> Return(Result_ok(r.value))]

asyncTry_start(fn) ==
    LET r == Call(fn, <<>>)
    IN  IF r.kind = "throw"
        THEN [pc |-> "done", completion |-> asyncTry_catch(r.value)]
        ELSE [pc |-> "await", operand |-> r.value]

asyncTry_resume(awaited) ==
    IF awaited.kind = "throw" THEN asyncTry_catch(awaited.value)
    ELSE Return(Result_ok(awaited.value))

\* An async function's promise is fulfilled by its return and rejected by a
\* throw that leaves it.
AsyncFunctionSettle(completion) ==
    [state |-> IF completion.kind = "return" THEN "fulfilled" ELSE "rejected",
     value |-> completion.value]

(***************************************************************************)
(* function.ts: Fn.tap.  `attached` tells whether tap put a rejection      *)
(* handler on what fn returned.                                            *)
(***************************************************************************)
\* A tap that does not put a handler on the promise.
Fn_tap_NoHandler(fn, value) ==
    [out |-> Return(value), calls |-> <<[fn |-> "fn", args |-> <<value>>]>>,
     attached |-> FALSE]

Fn_tap(fn, value) ==
    LET r == Invoke("fn", fn, <<value>>)
    IN  IF r.out.kind = "throw"
        THEN [out |-> Return(value), calls |-> r.calls, attached |-> FALSE]
        ELSE [out |-> Return(value), calls |-> r.calls,
              attached |-> InstanceOf(r.out.value, "Promise")]

(***************************************************************************)
(* The value universe and the caller-supplied functions of the harness.    *)
(***************************************************************************)
Numbers == {Num(n) : n \in 0..MaxNum}
Values ==
    {Null, Undefined, Sym, Str(""), Str("a"), Bool(FALSE), Bool(TRUE),
     PlainObject, NewError("x")} \cup Numbers
\* What the harness asks isTaggedError about.
Errors ==
    Values \cup {ForgedTagged, NewErrorWithTag("x"), UnwrapError("m"),
                 UnwrapError("Option is none"),
                 TryCatchError([cause |-> Str("boom")])}
\* What a caller-supplied function throws.
Thrown == {Undefined, Str("boom"), NewError("x"), UnwrapError("m")}
\* What the harness passes to a function that builds a container.
BinderValues == {Null, Undefined, Sym, Str("a")} \cup Numbers
Messages == {Undefined, Str(""), Str("boom")}

Returns == {[do |-> "return", value |-> v] : v \in Values}
Throws == {[do |-> "throw", value |-> x] : x \in Thrown}
\* (value) => B
Callbacks == Returns \cup Throws \cup {[do |-> "arg"]}
\* (value) => B that is pure and gives neither null nor undefined for a value
\* that is neither.
PureCallbacks ==
    {[do |-> "arg"], [do |-> "not"], [do |-> "typeof"],
     [do |-> "return", value |-> Num(0)], [do |-> "return", value |-> Str("a")]}
\* (x) => g(f(x))
Compose(f, g) == [do |-> "compose", f |-> f, g |-> g]
\* (value) => Option<B>
OptionBinders ==
    {[do |-> d, value |-> v] : d \in {"some", "fromNullable"}, v \in BinderValues}
        \cup {[do |-> "none"]} \cup Throws
\* (value) => Result<B, F>
ResultBinders ==
    {[do |-> d, value |-> v] : d \in {"ok", "err"}, v \in BinderValues} \cup Throws
Handlers ==
    {[do |-> "arg"], [do |-> "return", value |-> Str("a")],
     [do |-> "throw", value |-> NewError("x")]}
OptionMatchers == [some : Handlers, none : Handlers]
ResultMatchers == [ok : Handlers, err : Handlers]
\* How the promise of a caller-supplied function settles.
Settlements ==
    {[state |-> "fulfilled", value |-> Num(MaxNum)],
     [state |-> "fulfilled", value |-> Undefined],
     [state |-> "rejected", value |-> Str("boom")],
     [state |-> "rejected", value |-> NewError("x")]}
\* () => A and () => Promise<A>: the promise is pending or already settled
\* when the function returns it.
PromiseThunks ==
    {[do |-> "promise", state |-> "pending", value |-> Undefined]}
        \cup {[do |-> "promise", state |-> st.state, value |-> st.value] : st \in Settlements}
Thunks == Returns \cup Throws \cup PromiseThunks
\* (value) => void | Promise<void>
Observers ==
    {[do |-> "return", value |-> Undefined], [do |-> "arg"]}
        \cup Throws \cup PromiseThunks

NoFn == [do |-> "absent"]
NoPromise == [state |-> "none"]

(***************************************************************************)
(* The harness: a caller that holds one container (cur), makes one call of *)
(* the library at a time (last records it) and awaits asyncTry.  The       *)
(* library has no state of its own.                                        *)
(***************************************************************************)
VARIABLES
    cur,        \* the Option or Result the caller holds
    breach,     \* how the calls that built cur broke NonNullable, if they did:
                \* "none", "some" (Option.some was given null or undefined) or
                \* "callback" (map's callback returned null or undefined)
    last,       \* the last call: op, recv, arg, fn, out, calls
    fnPromise,  \* the promise the last caller-supplied function returned
    frame,      \* the activation of asyncTry: idle or suspended at its await
    outer       \* the promise asyncTry returned

vars == <<cur, breach, last, fnPromise, frame, outer>>

CallRecord(op, recv, arg, fn, res) ==
    [op |-> op, recv |-> recv, arg |-> arg, fn |-> fn,
     out |-> res.out, calls |-> res.calls]

\* The promise a call of fn left behind, if fn was called and made one.
PromiseOf(by, fn, res, handled) ==
    IF fn.do = "promise" /\ Len(res.calls) > 0
    THEN [state |-> fn.state, value |-> fn.value, by |-> by,
          handled |-> handled, late |-> FALSE, reported |-> FALSE]
    ELSE NoPromise

\* The caller makes its next call when asyncTry has been awaited and the last
\* promise has run its course (the library's calls share no state, so calls
\* made meanwhile would change nothing that is modelled here).
Quiescent ==
    /\ frame.pc = "idle"
    /\ outer.state = "none"
    /\ \/ fnPromise.state \in {"none", "fulfilled"}
       \/ fnPromise.state = "rejected" /\ (fnPromise.handled \/ fnPromise.reported)

Init ==
    /\ cur = Option_none
    /\ breach = "none"
    /\ last = CallRecord("none", Undefined, Undefined, NoFn, NoCalls(Return(Option_none)))
    /\ fnPromise = NoPromise
    /\ frame = [pc |-> "idle"]
    /\ outer = [state |-> "none"]

\* A synchronous call that leaves no promise behind.
Sync(op, recv, arg, fn, res, newCur, newBreach) ==
    /\ last' = CallRecord(op, recv, arg, fn, res)
    /\ cur' = newCur
    /\ breach' = newBreach
    /\ fnPromise' = NoPromise
    /\ UNCHANGED <<frame, outer>>

\* The container a chaining call hands to the caller, if it returned.
Chained(res) == IF res.out.kind = "return" THEN res.out.value ELSE cur

SomeCall ==
    /\ Quiescent
    /\ \E v \in Values :
        Sync("some", Undefined, v, NoFn, NoCalls(Return(Option_some(v))),
             Option_some(v), IF IsNullish(v) THEN "some" ELSE "none")

NoneCall ==
    /\ Quiescent
    /\ Sync("none", Undefined, Undefined, NoFn, NoCalls(Return(Option_none)),
         Option_none, "none")

FromNullableCall ==
    /\ Quiescent
    /\ \E v \in Values :
        Sync("fromNullable", Undefined, v, NoFn,
             NoCalls(Return(Option_fromNullable(v))), Option_fromNullable(v), "none")

OkCall ==
    /\ Quiescent
    /\ \E v \in Values :
        Sync("ok", Undefined, v, NoFn, NoCalls(Return(Result_ok(v))),
             Result_ok(v), "none")

ErrCall ==
    /\ Quiescent
    /\ \E v \in Values :
        Sync("err", Undefined, v, NoFn, NoCalls(Return(Result_err(v))),
             Result_err(v), "none")

MapCall ==
    /\ Quiescent
    /\ \E fn \in Callbacks :
        LET res == map(cur, fn)
        IN  Sync("map", cur, Undefined, fn, res, Chained(res),
                 IF cur._tag = "some" /\ res.out.kind = "return"
                    /\ res.out.value._tag = "some"
                    /\ IsNullish(res.out.value.value) /\ breach = "none"
                 THEN "callback" ELSE breach)

\* option.map(f).map(g), and option.map((x) => g(f(x))) on the same option; the
\* caller keeps the result of the first.
MapMapCall ==
    /\ Quiescent
    /\ IsOption(cur)
    /\ \E f \in PureCallbacks, g \in PureCallbacks :
        LET first == map(cur, f)
            second == IF first.out.kind = "return" THEN map(first.out.value, g)
                      ELSE first
            chain == [out |-> second.out,
                      calls |-> IF first.out.kind = "return"
                                THEN first.calls \o second.calls ELSE first.calls]
            composed == map(cur, Compose(f, g))
        IN  /\ last' = [op |-> "map.map", recv |-> cur, arg |-> Undefined,
                         fn |-> [f |-> f, g |-> g], out |-> chain.out,
                         calls |-> chain.calls, composed |-> composed]
            /\ cur' = Chained(chain)
            /\ UNCHANGED breach
            /\ fnPromise' = NoPromise
            /\ UNCHANGED <<frame, outer>>

MapErrorCall ==
    /\ Quiescent
    /\ IsResult(cur)
    /\ \E fn \in Callbacks :
        LET res == mapError(cur, fn)
        IN  Sync("mapError", cur, Undefined, fn, res, Chained(res), breach)

AndThenCall ==
    /\ Quiescent
    /\ \E fn \in (IF IsOption(cur) THEN OptionBinders ELSE ResultBinders) :
        LET res == andThen(cur, fn)
        IN  Sync("andThen", cur, Undefined, fn, res, Chained(res),
                 IF cur._tag = "some" /\ res.out.kind = "return"
                 THEN IF fn.do = "some" /\ IsNullish(fn.value) THEN "some" ELSE "none"
                 ELSE breach)

MatchCall ==
    /\ Quiescent
    /\ \E matcher \in (IF IsOption(cur) THEN OptionMatchers ELSE ResultMatchers) :
        Sync("match", cur, Undefined, matcher, match(cur, matcher), cur, breach)

UnwrapCall ==
    /\ Quiescent
    /\ \E message \in Messages :
        Sync("unwrap", cur, message, NoFn, unwrap(cur, message), cur, breach)

UnwrapOrCall ==
    /\ Quiescent
    /\ \E or \in Values :
        Sync("unwrapOr", cur, or, NoFn, unwrapOr(cur, or), cur, breach)

UnwrapErrorCall ==
    /\ Quiescent
    /\ IsResult(cur)
    /\ Sync("unwrapError", cur, Undefined, NoFn, unwrapError(cur), cur, breach)

IsTaggedErrorCall ==
    /\ Quiescent
    /\ \E error \in Errors :
        Sync("isTaggedError", Undefined, error, NoFn,
             NoCalls(Return(Bool(isTaggedError(error)))), cur, breach)

\* cur = Result.try(fn)
TryCall ==
    /\ Quiescent
    /\ \E fn \in Thunks :
        LET res == Result_try(fn)
        IN  /\ last' = CallRecord("try", Undefined, Undefined, fn, res)
            /\ cur' = Chained(res)
            /\ breach' = "none"
            /\ fnPromise' = PromiseOf("try", fn, res, res.attached)
            /\ UNCHANGED <<frame, outer>>

\* Fn.tap(fn, value)
TapCall ==
    /\ Quiescent
    /\ \E fn \in Observers, value \in Values :
        LET res == Fn_tap(fn, value)
        IN  /\ last' = CallRecord("tap", Undefined, value, fn, res)
            /\ fnPromise' = PromiseOf("tap", fn, res, res.attached)
            /\ UNCHANGED <<cur, breach, frame, outer>>

\* cur = await Result.asyncTry(fn): the call, up to the await of fn() or to the
\* end.  `await p` puts its reactions on p.
AsyncTryCall ==
    /\ Quiescent
    /\ \E fn \in Thunks :
        LET st == asyncTry_start(fn)
            res == [out |-> Return(Promise("outer")),
                    calls |-> <<[fn |-> "fn", args |-> <<>>]>>]
        IN  /\ last' = CallRecord("asyncTry", Undefined, Undefined, fn, res)
            /\ fnPromise' = PromiseOf("asyncTry", fn, res, st.pc = "await")
            /\ frame' = IF st.pc = "await"
                        THEN [pc |-> "await", operand |-> st.operand]
                        ELSE [pc |-> "idle"]
            /\ outer' = IF st.pc = "await" THEN [state |-> "pending"]
                        ELSE AsyncFunctionSettle(st.completion)
            /\ UNCHANGED <<cur, breach>>

\* The environment settles the pending promise of fn.
SettleFnPromise ==
    /\ fnPromise.state = "pending"
    /\ \E st \in Settlements :
        fnPromise' = [fnPromise EXCEPT !.state = st.state, !.value = st.value,
                                       !.late = TRUE]
    /\ UNCHANGED <<cur, breach, last, frame, outer>>

\* The host reports a rejected promise that nothing handles.
ReportUnhandled ==
    /\ fnPromise.state = "rejected"
    /\ ~fnPromise.handled
    /\ ~fnPromise.reported
    /\ fnPromise' = [fnPromise EXCEPT !.reported = TRUE]
    /\ UNCHANGED <<cur, breach, last, frame, outer>>

\* The outcome of `await operand`, once it is known.
Awaited(operand) ==
    IF InstanceOf(operand, "Promise")
    THEN IF fnPromise.state = "fulfilled" THEN Return(fnPromise.value)
         ELSE Throw(fnPromise.value)
    ELSE Return(operand)

\* asyncTry is resumed after its await and runs to its end.
ResumeAsyncTry ==
    /\ frame.pc = "await"
    /\ InstanceOf(frame.operand, "Promise") => fnPromise.state \in {"fulfilled", "rejected"}
    /\ frame' = [pc |-> "idle"]
    /\ outer' = AsyncFunctionSettle(asyncTry_resume(Awaited(frame.operand)))
    /\ UNCHANGED <<cur, breach, last, fnPromise>>

\* The caller's await of asyncTry's promise ends: cur = the Result, or the
\* rejection is thrown at the await.
AwaitOuter ==
    /\ outer.state \in {"fulfilled", "rejected"}
    /\ cur' = IF outer.state = "fulfilled" THEN outer.value ELSE cur
    /\ breach' = "none"
    /\ last' = [last EXCEPT !.op = "await asyncTry",
                            !.out = IF outer.state = "fulfilled"
                                    THEN Return(outer.value) ELSE Throw(outer.value)]
    /\ outer' = [state |-> "none"]
    /\ UNCHANGED <<fnPromise, frame>>

Next ==
    \/ SomeCall \/ NoneCall \/ FromNullableCall \/ OkCall \/ ErrCall
    \/ MapCall \/ MapMapCall \/ MapErrorCall \/ AndThenCall \/ MatchCall
    \/ UnwrapCall \/ UnwrapOrCall \/ UnwrapErrorCall \/ IsTaggedErrorCall
    \/ TryCall \/ TapCall \/ AsyncTryCall
    \/ SettleFnPromise \/ ReportUnhandled \/ ResumeAsyncTry \/ AwaitOuter

Spec == Init /\ [][Next]_vars

(***************************************************************************)
(* Properties                                                              *)
(***************************************************************************)
\* A Some holds neither null nor undefined.
WellFormed(o) == o._tag = "some" => ~IsNullish(o.value)

\* The values `if (value)` takes for false.
Falsy == {Null, Undefined, Num(0), Str(""), Bool(FALSE)}

\* C1 as stated: whatever the callbacks return, null and undefined included
\* (Option.some itself being given neither), an Option built by some, none,
\* fromNullable, map and andThen is None or a Some of a value that is neither
\* null nor undefined.
C1_SomeNeverNull_AnyCallback ==
    (IsOption(cur) /\ breach # "some") => WellFormed(cur)

\* C1, amended: the same, for calls that keep the NonNullable contract of
\* Option.some's argument and of map's callback.
C1_SomeNeverNull ==
    /\ (IsOption(cur) /\ breach = "none") => WellFormed(cur)
    /\ (last.op = "map" /\ last.recv._tag = "some" /\ last.out.kind = "return")
          => /\ cur._tag = "some"
             /\ cur.value = Call(last.fn, <<last.recv.value>>).value

\* C1 witness: map on a Some with a callback that returns a value, contract kept.
C1_Witness ==
    /\ breach = "none"
    /\ last.op = "map"
    /\ last.recv._tag = "some"
    /\ last.fn.do = "return"
    /\ cur._tag = "some"

C3_FromNullableNullish ==
    last.op = "fromNullable" =>
        /\ IsNullish(last.arg) => last.out = Return(Option_none)
        /\ ~IsNullish(last.arg) => last.out = Return(Option_some(last.arg))

\* The caller-supplied function a call invoked, if it invoked one.
Invoked(l) ==
    IF l.calls = <<>> THEN NoFn
    ELSE IF l.op = "match" THEN l.fn[l.calls[1].fn] ELSE l.fn

\* An instance of UnwrapError carrying `message`.
IsUnwrapError(x, message) ==
    /\ isTaggedError(x)
    /\ InstanceOf(x, "UnwrapError")
    /\ x._tag = "UnwrapError"
    /\ x.message = message

\* Err(TryCatchError) whose cause is x.
IsTryCatchErr(r, x) ==
    /\ r._tag = "err"
    /\ isTaggedError(r.value)
    /\ InstanceOf(r.value, "TryCatchError")
    /\ r.value._tag = "TryCatchError"
    /\ r.value.cause = x

\* The text a template literal puts for a value that has one.
Rendered(v) ==
    CASE v.t = "null" -> "null"
      [] v.t = "undefined" -> "undefined"
      [] v.t = "number" -> NumberToString(v.n)
      [] v.t = "string" -> v.s
      [] v.t = "boolean" -> (IF v.b THEN "true" ELSE "false")
      [] v.t = "symbol" -> "Symbol()"
      [] InstanceOf(v, "Error") -> "Error: " \o v.message
      [] InstanceOf(v, "Promise") -> "[object Promise]"
      [] OTHER -> "[object Object]"

\* C4 as stated: unwrap on None or Err and unwrapError on Ok throw an
\* UnwrapError with the supplied message or else the default one ("Option is
\* none", "Result is error: <e>", "Result is ok: <v>"); unwrap on Some or Ok
\* and unwrapError on Err return the payload.
C4_UnwrapWrongVariantThrowsUnwrapError ==
    /\ (last.op = "unwrap" /\ last.recv._tag = "none") =>
          /\ last.out.kind = "throw"
          /\ IsUnwrapError(last.out.value,
                           IF last.arg = Undefined THEN "Option is none"
                           ELSE last.arg.s)
    /\ (last.op = "unwrap" /\ last.recv._tag = "err") =>
          /\ last.out.kind = "throw"
          /\ IsUnwrapError(last.out.value,
                           IF last.arg = Undefined
                           THEN "Result is error: " \o Rendered(last.recv.value)
                           ELSE last.arg.s)
    /\ (last.op = "unwrapError" /\ last.recv._tag = "ok") =>
          /\ last.out.kind = "throw"
          /\ IsUnwrapError(last.out.value,
                           "Result is ok: " \o Rendered(last.recv.value))
    /\ (last.op = "unwrap" /\ last.recv._tag \in {"some", "ok"}) =>
          last.out = Return(last.recv.value)
    /\ (last.op = "unwrapError" /\ last.recv._tag = "err") =>
          last.out = Return(last.recv.value)

\* C5: Result.try(fn) always returns: Ok(v) when fn returns v, and an Err of
\* a TryCatchError whose cause is x when fn throws x.
C5_TryNeverThrows ==
    last.op = "try" =>
        /\ last.out.kind = "return"
        /\ cur = last.out.value
        /\ Len(last.calls) = 1
        /\ last.fn.do = "return" => cur = Result_ok(last.fn.value)
        /\ last.fn.do = "promise" => cur = Result_ok(Promise("fn"))
        /\ last.fn.do = "throw" => IsTryCatchErr(cur, last.fn.value)

\* C5 witness: fn threw new Error("x") and try returned the Err wrapping it.
C5_Witness ==
    /\ last.op = "try"
    /\ last.fn = [do |-> "throw", value |-> NewError("x")]
    /\ cur._tag = "err"
    /\ cur.value.cause.message = "x"

\* What asyncTry's promise must have resolved to, given what fn did.
AsyncTryResult(r) ==
    CASE last.fn.do = "throw" -> IsTryCatchErr(r, last.fn.value)
      [] last.fn.do = "promise" ->
            /\ fnPromise.state \in {"fulfilled", "rejected"}
            /\ fnPromise.state = "fulfilled" => r = Result_ok(fnPromise.value)
            /\ fnPromise.state = "rejected" => IsTryCatchErr(r, fnPromise.value)
      [] OTHER -> r = Result_ok(last.fn.value)

\* C6: the promise of asyncTry never rejects, and it is resolved only once
\* fn's promise has settled: to Ok(v) if that fulfilled with v, to an Err of a
\* TryCatchError with cause x if it rejected with x or fn threw x.
C6_AsyncTryResolvesAfterSettle ==
    /\ outer.state # "rejected"
    /\ (frame.pc = "await" /\ fnPromise.state = "pending") => outer.state = "pending"
    /\ outer.state = "fulfilled" => AsyncTryResult(outer.value)
    /\ last.op = "await asyncTry" =>
          /\ last.out.kind = "return"
          /\ cur = last.out.value
          /\ AsyncTryResult(cur)

\* C6 witness: fn's promise was pending, then rejected, and the awaited Result
\* is the Err.
C6_Witness ==
    /\ last.op = "await asyncTry"
    /\ fnPromise.state = "rejected"
    /\ fnPromise.late
    /\ cur._tag = "err"

\* C7: tap returns its value whatever fn does: a throw of fn is discarded,
\* a promise fn returns is not waited for, and its rejection is handled.
C7_TapReturnsValue ==
    last.op = "tap" =>
        /\ last.out = Return(last.arg)
        /\ Len(last.calls) = 1
        /\ last.calls[1].args = <<last.arg>>
        /\ last.fn.do = "promise" =>
              /\ fnPromise.by = "tap"
              /\ fnPromise.handled
              /\ ~fnPromise.reported

\* C7 witness: tap returned while fn's promise was pending, and the promise
\* rejected afterwards.
C7_Witness ==
    /\ last.op = "tap"
    /\ last.out = Return(last.arg)
    /\ fnPromise.state = "rejected"
    /\ fnPromise.late

\* C8: Ok(v).andThen(f) is f(v); on an Err, map and andThen return the same
\* Err and call nothing.
C8_ShortCircuit ==
    /\ (last.op = "andThen" /\ last.recv._tag = "ok") =>
          /\ last.out = Call(last.fn, <<last.recv.value>>)
          /\ last.calls = <<[fn |-> "fn", args |-> <<last.recv.value>>]>>
    /\ (last.op \in {"map", "andThen"} /\ last.recv._tag = "err") =>
          /\ last.out = Return(last.recv)
          /\ last.calls = <<>>
          /\ cur = last.recv

\* C8 witness: andThen on an Err with a function that would have returned Ok.
C8_Witness ==
    /\ last.op = "andThen"
    /\ last.recv._tag = "err"
    /\ last.fn.do = "ok"
    /\ cur = last.recv

\* C9: isTaggedError is true of every instance of UnwrapError and of
\* TryCatchError (whose tags differ) and false of every value that does not
\* inherit from TaggedError, a forged object or a plain Error with a _tag
\* field included.
C9_IsTaggedErrorByClass ==
    /\ UnwrapError("m")._tag # TryCatchError([cause |-> Undefined])._tag
    /\ last.op = "isTaggedError" =>
          /\ last.arg.t = "object" /\ last.arg.chain[1] \in {"UnwrapError", "TryCatchError"}
                => last.out = Return(Bool(TRUE)) /\ last.arg._tag = last.arg.chain[1]
          /\ ~(last.arg.t = "object" /\ \E i \in DOMAIN last.arg.chain :
                                           last.arg.chain[i] = "TaggedError")
                => last.out = Return(Bool(FALSE))

\* C9 witness: isTaggedError({ _tag: "X", message: "m" }) returned false.
C9_Witness ==
    /\ last.op = "isTaggedError"
    /\ last.arg = ForgedTagged
    /\ last.out = Return(Bool(FALSE))

\* The Option and Result operations (tap is not one).
Operations ==
    {"map", "mapError", "andThen", "match", "unwrap", "unwrapOr", "unwrapError",
     "try", "await asyncTry"}

\* The failure a call met, if it met one: the function it called threw, the
\* promise it awaited rejected, or it unwrapped the variant that does not
\* hold the payload.
Failed ==
    /\ last.op \in Operations
    /\ \/ Invoked(last).do = "throw"
       \/ last.op = "await asyncTry" /\ last.fn.do = "promise"
             /\ fnPromise.state = "rejected"
       \/ last.op = "unwrap" /\ last.recv._tag \in {"none", "err"}
       \/ last.op = "unwrapError" /\ last.recv._tag = "ok"

C11_MapFunctorLaw ==
    /\ (last.op = "map.map" /\ last.recv._tag = "some" /\ ~IsNullish(last.recv.value)) =>
            /\ last.out.kind = "return"
            /\ last.out.value._tag = "some"
            /\ last.composed.out.kind = "return"
            /\ last.composed.out.value._tag = "some"
            /\ last.out.value.value = last.composed.out.value.value
            /\ last.out.value.value
                    = Call(last.fn.g, <<Call(last.fn.f, <<last.recv.value>>).value>>).value
            /\ cur = last.out.value
            /\ Len(last.calls) = 2
            /\ last.calls[1] = [fn |-> "fn", args |-> <<last.recv.value>>]
            /\ last.calls[2].args
                    = <<Call(last.fn.f, <<last.recv.value>>).value>>
    /\ (last.op = "map.map" /\ last.recv._tag = "none") =>
            /\ last.out = Return(last.recv)
            /\ last.composed = NoCalls(Return(last.recv))
            /\ last.calls = <<>>
            /\ cur = last.recv
    /\ (last.op = "map" /\ last.recv._tag = "none") =>
            /\ last.out = Return(last.recv)
            /\ last.calls = <<>>
            /\ cur = last.recv

\* Some(1).map((x) => !x).map((x) => typeof x) is Some("boolean"), as is
\* Some(1).map((x) => typeof !x): the value passes through a falsy one.
C11_Witness ==
    /\ last.op = "map.map"
    /\ last.recv = Option_some(Num(MaxNum))
    /\ last.fn = [f |-> [do |-> "not"], g |-> [do |-> "typeof"]]
    /\ last.calls[2].args = <<Bool(FALSE)>>
    /\ cur = Option_some(Str("boolean"))
    /\ last.composed.out = Return(cur)

\* C12: unwrapOr never throws and calls nothing: on a Some or an Ok it returns
\* the held value, whatever the value and the default are, and on a None or an
\* Err it returns the default; the container is left as it was.
C12_UnwrapOrTotal ==
    last.op = "unwrapOr" =>
        /\ last.out.kind = "return"
        /\ last.calls = <<>>
        /\ last.recv._tag \in {"some", "ok"} => last.out.value = last.recv.value
        /\ last.recv._tag \in {"none", "err"} => last.out.value = last.arg
        /\ cur = last.recv

\* Result.ok(null).unwrapOr(1) is null.
C12_Witness ==
    /\ last.op = "unwrapOr"
    /\ last.recv = Result_ok(Null)
    /\ last.arg = Num(MaxNum)
    /\ last.out = Return(Null)

\* Result.err(e) and Option.none() give the default back, a falsy one too.
C12_WitnessDefault ==
    /\ last.op = "unwrapOr"
    /\ last.recv._tag \in {"none", "err"}
    /\ last.arg = Num(0)
    /\ last.out = Return(Num(0))

\* C13: when fn returns a promise, Result.try returns Ok of that promise and
\* puts no handler on it; whenever and however the promise settles, also when
\* it rejects after the call, the caller still holds that Ok, no Err was made,
\* and the rejection is left unhandled.  An awaited asyncTry of the same fn
\* gives Err of a TryCatchError whose cause is the rejection, and handles it.
C13_TryKeepsPromise ==
    /\ (last.op = "try" /\ last.fn.do = "promise") =>
            /\ last.out = Return(Result_ok(Promise("fn")))
            /\ cur = Result_ok(Promise("fn"))
            /\ fnPromise.by = "try"
            /\ ~fnPromise.handled
    /\ (last.op = "await asyncTry" /\ last.fn.do = "promise"
            /\ fnPromise.state = "rejected") =>
            /\ cur = Result_err(TryCatchError([cause |-> fnPromise.value]))
            /\ fnPromise.handled
            /\ ~fnPromise.reported

\* The promise Result.try put into Ok rejected after the call; the host
\* reported the rejection and the caller holds the Ok.
C13_Witness ==
    /\ last.op = "try"
    /\ last.fn = [do |-> "promise", state |-> "pending", value |-> Undefined]
    /\ fnPromise.late
    /\ fnPromise.state = "rejected"
    /\ fnPromise.value = NewError("x")
    /\ fnPromise.reported
    /\ cur = Result_ok(Promise("fn"))

\* The same fn under an awaited asyncTry: the late rejection became an Err.
C13_WitnessAsyncTry ==
    /\ last.op = "await asyncTry"
    /\ last.fn = [do |-> "promise", state |-> "pending", value |-> Undefined]
    /\ fnPromise.late
    /\ fnPromise.state = "rejected"
    /\ cur = Result_err(TryCatchError([cause |-> NewError("x")]))
====
